---- MODULE Spec2Model ----
(***************************************************************************)
(* A model of capcalc/niftidecomp.py: niftidecomp_workflow, one call of    *)
(* the function from entry to its return, its sys.exit()/exit() or an      *)
(* uncaught exception.  One action per block of the function; the program  *)
(* counter pc names the block that runs next.                              *)
(*                                                                         *)
(* Conventions.                                                            *)
(*  - Arrays are sequences; position p of a sequence is numpy index p-1.   *)
(*  - Real numbers that decide a branch (mask values, maskthresh,          *)
(*    pcacomponents) are kept in hundredths: 0.25 is 25, 1.0 is 100.       *)
(*  - A Python value whose type decides what happens (pcacomponents is a   *)
(*    float, an int or the string "mle") is a record [type, val].          *)
(*  - The numeric content of procdata, of the fitted loadings and of the   *)
(*    reconstruction is not tracked: the loadings are tokens that name     *)
(*    their (row, column), so that placement can be checked.               *)
(*  - sigma = 0.0 and theprefilter = None (the defaults): lines 96-108 of  *)
(*    the loop body are skipped, the file data reaches line 110 unchanged. *)
(***************************************************************************)
EXTENDS Integers, Sequences, FiniteSets, TLC

VARIABLES
    \* arguments of the call
    datafilelist, datamaskname, decomptype, pcacomponents, icacomponents,
    trainedmodelroot, normmethod, demean,
    \* control
    pc, error, locals,
    \* mask selector
    datamaskdims, datamask_data, shape3, numspatiallocs, proclocs,
    \* volume stacker
    idx, filesRead, datafile_data, datafiledims, originaldatafiledims,
    timepoints, totaltimepoints, rs_datafile,
    \* normalizer
    procdata, thenormfac,
    \* decomposition engine
    thepca, thefit, thetransform, theinvtrans, thecomponents,
    \* reassembler and durable storage
    outputcomponents, outinvtrans, written, returned

argv == <<datafilelist, datamaskname, decomptype, icacomponents,
          trainedmodelroot, normmethod, demean>>
maskv == <<datamaskdims, datamask_data, shape3, numspatiallocs, proclocs>>
stackv == <<idx, filesRead, datafile_data, datafiledims, originaldatafiledims,
            timepoints, totaltimepoints, rs_datafile>>
normv == <<procdata, thenormfac>>
decompv == <<thepca, thefit, thetransform, theinvtrans, thecomponents>>
outv == <<outputcomponents, outinvtrans, written, returned>>
vars == <<argv, pcacomponents, pc, error, locals, maskv, stackv, normv,
          decompv, outv>>

----------------------------------------------------------------------------
(* Bounds of the model *)

MaxFiles == 3
MaxComponents == 2

----------------------------------------------------------------------------
(* Values *)

None == "None"

Hundredths(n) == n * 100

PyFloat(v) == [type |-> "float", val |-> v, text |-> ""]
PyInt(n) == [type |-> "int", val |-> Hundredths(n), text |-> ""]
PyStr(s) == [type |-> "str", val |-> 0, text |-> s]
PyNone == [type |-> "NoneType", val |-> 0, text |-> ""]

Dims(x, y, s, t) == [x |-> x, y |-> y, slices |-> s, t |-> t]
NoDims == Dims(0, 0, 0, 0)

Min2(a, b) == IF a <= b THEN a ELSE b

SeqMax(s) == CHOOSE m \in {s[i] : i \in 1..Len(s)} :
                 \A i \in 1..Len(s) : s[i] <= m
SeqMin(s) == CHOOSE m \in {s[i] : i \in 1..Len(s)} :
                 \A i \in 1..Len(s) : m <= s[i]

\* the increasing sequence of the members of a set of positions
RECURSIVE Ascending(_)
Ascending(S) ==
    IF S = {} THEN <<>>
    ELSE LET m == CHOOSE a \in S : \A b \in S : a <= b
         IN  <<m>> \o Ascending(S \ {m})

----------------------------------------------------------------------------
(* The files of the run: the volumes on disk, as tide_io.readfromnifti     *)
(* returns them (dims and the data array, flattened in C order: the time   *)
(* index runs fastest, then slice, y, x).                                  *)

Volume(d, flat) == [dims |-> d, data |-> flat]

MaskFiles ==
    [n \in {"maskall.nii", "maskpart.nii", "mask4d.nii", "maskyx.nii"} |->
        CASE n = "maskall.nii"  -> Volume(Dims(3, 1, 1, 1), <<100, 100, 100>>)
          [] n = "maskpart.nii" -> Volume(Dims(3, 1, 1, 1), <<100, 25, 30>>)
          [] n = "mask4d.nii"   -> Volume(Dims(3, 1, 1, 2),
                                          <<100, 100, 100, 100, 100, 100>>)
          [] n = "maskyx.nii"   -> Volume(Dims(1, 3, 1, 1), <<100, 100, 100>>)]

DataFiles ==
    [n \in {"a.nii", "b.nii", "c.nii"} |->
        CASE n = "a.nii" -> Volume(Dims(3, 1, 1, 2), <<1, 3, 2, 2, 0, 5>>)
          [] n = "b.nii" -> Volume(Dims(1, 3, 1, 2), <<1, 2, 3, 4, 5, 6>>)
          [] n = "c.nii" -> Volume(Dims(3, 1, 1, 1), <<4, 7, 7>>)]

Disk == [n \in DOMAIN MaskFiles \cup DOMAIN DataFiles |->
            IF n \in DOMAIN MaskFiles THEN MaskFiles[n] ELSE DataFiles[n]]

\* <root>_pca.joblib files present before the run, by root
ModelFiles ==
    [r \in {"trained"} |->
        [kind |-> "PCA", n_components |-> PyInt(1), state |-> "persisted",
         origin |-> "loaded"]]

NoModel == [kind |-> "none", n_components |-> PyInt(0), state |-> "unfit",
            origin |-> "none"]

outputroot == "out"
ModelFileName(root) == <<root, "_pca.joblib">>

\* the defaults of the arguments the model keeps fixed
maskthresh == 25
sigma == 0
theprefilter == None

----------------------------------------------------------------------------
(* capcalc.io *)

\* readfromnifti succeeds on the path of a volume; any other path (None
\* included) raises in the reader
CanRead(path) == path \in DOMAIN Disk
readfromnifti(path) == Disk[path]

parseniftidims(d) == <<d.x, d.y, d.slices, d.t>>

checkspacedimmatch(d1, d2) ==
    d1.x = d2.x /\ d1.y = d2.y /\ d1.slices = d2.slices

checktimematch(d1, d2) == d1.t = d2.t

----------------------------------------------------------------------------
(* numpy *)

\* a.reshape((n, t)) of a flat array: defined when the sizes agree
CanReshape(flat, n, t) == Len(flat) = n * t
Reshape2D(flat, n, t) ==
    [v \in 1..n |-> [i \in 1..t |-> flat[(v - 1) * t + i]]]

\* np.zeros((n, t))
Zeros(n, t) == [v \in 1..n |-> [i \in 1..t |-> 0]]

\* np.where(a > thresh)[0], in increasing order
WhereGreater(a, thresh) ==
    Ascending({p \in 1..Len(a) : a[p] > thresh})

ScatterRows_dense(n, k, locs, rows) ==
    [v \in 1..n |->
        IF v <= Len(locs) THEN rows[v] ELSE [c \in 1..k |-> 0]]

\* out[locs, :] = rows, on an array of zeros with n rows and k columns
ScatterRows(n, k, locs, rows) ==
    [v \in 1..n |->
        IF \E j \in 1..Len(locs) : locs[j] = v
        THEN rows[CHOOSE j \in 1..Len(locs) : locs[j] = v]
        ELSE [c \in 1..k |-> 0]]

----------------------------------------------------------------------------
(* The call *)

RECURSIVE SeqsUpTo(_, _)
SeqsUpTo(S, n) ==
    IF n = 0 THEN {<<>>}
    ELSE LET shorter == SeqsUpTo(S, n - 1)
         IN  shorter \cup {Append(q, e) : q \in shorter, e \in S}

PcaSpecs == {PyFloat(-100), PyFloat(50), PyFloat(100)}
                \cup {PyInt(n) : n \in 1..MaxComponents}
IcaSpecs == {PyNone} \cup {PyInt(n) : n \in 1..MaxComponents}
NormMethods == {"None", "percent", "stddev", "z", "p2p", "mad"}

\* the signature, lines 31-44; an argument that the chosen decomptype never
\* reads is left at its default
Init ==
    /\ datafilelist \in SeqsUpTo(DOMAIN DataFiles, MaxFiles)
    /\ datamaskname \in {None} \cup DOMAIN MaskFiles
    /\ decomptype \in {"pca", "sparsepca", "ica"}
    /\ pcacomponents \in
           IF decomptype = "ica" THEN {PyFloat(50)} ELSE PcaSpecs
    /\ icacomponents \in IF decomptype = "ica" THEN IcaSpecs ELSE {PyNone}
    /\ trainedmodelroot \in
           IF decomptype = "ica" THEN {None} ELSE {None, "trained", "missing"}
    /\ normmethod \in NormMethods \cup {"bogus"}
    /\ demean \in BOOLEAN
    /\ pc = "start"
    /\ error = ""
    /\ locals = {}
    /\ datamaskdims = NoDims
    /\ datamask_data = <<>>
    /\ shape3 = <<0, 0, 0>>
    /\ numspatiallocs = 0
    /\ proclocs = <<>>
    /\ idx = 0
    /\ filesRead = <<>>
    /\ datafile_data = <<>>
    /\ datafiledims = NoDims
    /\ originaldatafiledims = NoDims
    /\ timepoints = 0
    /\ totaltimepoints = 0
    /\ rs_datafile = <<>>
    /\ procdata = [raw |-> <<>>, cols |-> 0, demeaned |-> FALSE,
                   dividedby |-> "nothing"]
    /\ thenormfac = "unset"
    /\ thepca = NoModel
    /\ thefit = 0
    /\ thetransform = <<0, 0>>
    /\ theinvtrans = [rows |-> 0, cols |-> 0, rescaledby |-> "", meanadded |-> FALSE]
    /\ thecomponents = <<>>
    /\ outputcomponents = [shape |-> <<0, 0, 0, 0>>, data |-> <<>>]
    /\ outinvtrans = [shape |-> <<0, 0, 0, 0>>, data |-> <<>>]
    /\ written = {}
    /\ returned = <<>>

Terminal == {"returned", "exit", "exception"}

\* sys.exit() / exit() after a printed diagnostic
Exit(diagnostic) == pc' = "exit" /\ error' = diagnostic
\* an exception nothing catches
Raise(exception) == pc' = "exception" /\ error' = exception

----------------------------------------------------------------------------
(* Mask Selector *)

\* lines 49-57: the mask is read whatever datamaskname is
ReadMask ==
    /\ pc = "start"
    /\ IF CanRead(datamaskname)
       THEN /\ datamaskdims' = readfromnifti(datamaskname).dims
            /\ datamask_data' = readfromnifti(datamaskname).data
            /\ locals' = locals \cup {"datamaskdims", "datamask_data"}
            /\ pc' = "select"
            /\ error' = error
       ELSE /\ Raise("ReadError")
            /\ UNCHANGED <<datamaskdims, datamask_data, locals>>
    /\ UNCHANGED <<argv, pcacomponents, shape3, numspatiallocs, proclocs,
                   stackv, normv, decompv, outv>>

\* line 62
MaskIs3D_timeseries(mask_timepoints) == mask_timepoints >= 1
MaskIs3D(mask_timepoints) == mask_timepoints = 1

\* lines 59-67
SelectVoxels ==
    /\ pc = "select"
    /\ LET d == parseniftidims(datamaskdims)
           n == d[1] * d[2] * d[3]
       IN  /\ shape3' = <<d[1], d[2], d[3]>>
           /\ numspatiallocs' = n
           /\ IF MaskIs3D(d[4])
              THEN IF CanReshape(datamask_data, n, 1)
                   THEN /\ proclocs' = WhereGreater(datamask_data, maskthresh)
                        /\ locals' = locals \cup {"proclocs"}
                        /\ pc' = "loop"
                        /\ idx' = 1
                        /\ error' = error
                   ELSE /\ Raise("ValueError")
                        /\ UNCHANGED <<proclocs, locals, idx>>
              ELSE /\ Exit("mask must have only 3 dimensions")
                   /\ UNCHANGED <<proclocs, locals, idx>>
    /\ UNCHANGED <<argv, pcacomponents, datamaskdims, datamask_data,
                   filesRead, datafile_data, datafiledims,
                   originaldatafiledims, timepoints, totaltimepoints,
                   rs_datafile, normv, decompv, outv>>

----------------------------------------------------------------------------
(* Volume Stacker *)

\* lines 89-91
SameGeometry_spaceonly(d, original) == checkspacedimmatch(d, original)
SameGeometry(d, original) ==
    checkspacedimmatch(d, original) /\ checktimematch(d, original)

\* lines 72-93: one pass of the loop up to the geometry check
ReadDataFile ==
    /\ pc = "loop"
    /\ idx <= Len(datafilelist)
    /\ IF CanRead(datafilelist[idx])
       THEN LET vol == readfromnifti(datafilelist[idx])
                d == parseniftidims(vol.dims)
            IN  /\ filesRead' = Append(filesRead, datafilelist[idx])
                /\ datafile_data' = vol.data
                /\ datafiledims' = vol.dims
                /\ locals' = locals \cup
                       {"datafiledims", "datafile_hdr", "datafilesizes"} \cup
                       (IF idx = 1 THEN {"rs_datafile", "totaltimepoints"}
                                   ELSE {})
                /\ IF idx = 1
                   THEN /\ shape3' = <<d[1], d[2], d[3]>>
                        /\ timepoints' = d[4]
                        /\ totaltimepoints' = d[4] * Len(datafilelist)
                        /\ originaldatafiledims' = vol.dims
                        /\ rs_datafile' =
                               Zeros(numspatiallocs, d[4] * Len(datafilelist))
                        /\ pc' = "place"
                        /\ error' = error
                   ELSE /\ IF SameGeometry(vol.dims, originaldatafiledims)
                           THEN pc' = "place" /\ error' = error
                           ELSE Exit("all input data files must have the same dimensions")
                        /\ UNCHANGED <<shape3, timepoints, totaltimepoints,
                                       originaldatafiledims, rs_datafile>>
       ELSE /\ Raise("ReadError")
            /\ UNCHANGED <<filesRead, datafile_data, datafiledims, locals,
                           shape3, timepoints, totaltimepoints,
                           originaldatafiledims, rs_datafile>>
    /\ UNCHANGED <<argv, pcacomponents, datamaskdims, datamask_data,
                   numspatiallocs, proclocs, idx, normv, decompv, outv>>

\* rs_datafile[:, idx * timepoints : (idx + 1) * timepoints] = block
PlaceBlock(matrix, block, slot, t) ==
    [v \in 1..Len(matrix) |->
        [i \in 1..Len(matrix[v]) |->
            IF (slot - 1) * t < i /\ i <= slot * t
            THEN block[v][i - (slot - 1) * t]
            ELSE matrix[v][i]]]

\* lines 95-112: the rest of the pass (no smoothing, no prefilter)
PlaceDataFile ==
    /\ pc = "place"
    /\ IF CanReshape(datafile_data, numspatiallocs, timepoints)
       THEN /\ rs_datafile' =
                   PlaceBlock(rs_datafile,
                              Reshape2D(datafile_data, numspatiallocs, timepoints),
                              idx, timepoints)
            /\ idx' = idx + 1
            /\ pc' = "loop"
            /\ error' = error
       ELSE /\ Raise("ValueError")
            /\ UNCHANGED <<rs_datafile, idx>>
    /\ UNCHANGED <<argv, pcacomponents, locals, maskv, filesRead,
                   datafile_data, datafiledims, originaldatafiledims,
                   timepoints, totaltimepoints, normv, decompv, outv>>

\* lines 114-119
CheckMaskDims ==
    /\ pc = "loop"
    /\ idx > Len(datafilelist)
    /\ IF datamaskname # None
       THEN IF "datafiledims" \notin locals
            THEN Raise("UnboundLocalError")
            ELSE IF checkspacedimmatch(datafiledims, datamaskdims)
                 THEN pc' = "masking" /\ error' = error
                 ELSE Exit("input mask spatial dimensions do not match image")
       ELSE pc' = "masking" /\ error' = error
    /\ UNCHANGED <<argv, pcacomponents, locals, maskv, stackv, normv,
                   decompv, outv>>

\* lines 124-127: the voxels whose range over the stacked time points is positive
RangeLocs(matrix) ==
    Ascending({v \in 1..Len(matrix) :
                  Len(matrix[v]) > 0 /\ SeqMax(matrix[v]) - SeqMin(matrix[v]) > 0})

\* rs_datafile[proclocs, :][0]
SelectRows(matrix, locs) == [j \in 1..Len(locs) |-> matrix[locs[j]]]

\* lines 121-131
MaskArrays ==
    /\ pc = "masking"
    /\ IF "rs_datafile" \notin locals
       THEN /\ Raise("UnboundLocalError")
            /\ UNCHANGED <<datamaskdims, proclocs, procdata, locals>>
       ELSE LET locs == IF datamaskname = None
                        THEN RangeLocs(rs_datafile)
                        ELSE proclocs
            IN  /\ proclocs' = locs
                /\ datamaskdims' =
                       IF datamaskname = None
                       THEN Dims(shape3[1], shape3[2], shape3[3], 1)
                       ELSE datamaskdims
                /\ procdata' = [raw |-> SelectRows(rs_datafile, locs),
                                cols |-> totaltimepoints,
                                demeaned |-> FALSE,
                                dividedby |-> "nothing"]
                /\ locals' = locals \cup {"proclocs", "procdata"}
                /\ pc' = "normalize"
                /\ error' = error
    /\ UNCHANGED <<argv, pcacomponents, datamask_data, shape3,
                   numspatiallocs, stackv, thenormfac, decompv, outv>>

----------------------------------------------------------------------------
(* Normalizer *)

\* lines 140-157: which vector becomes thenormfac
NormFactor(method) ==
    CASE method = "None"    -> "ones"
      [] method = "percent" -> "themean"
      [] method = "stddev"  -> "std"
      [] method = "z"       -> "var"
      [] method = "p2p"     -> "p2p"
      [] method = "mad"     -> "mad"

\* lines 133-163
Normalize ==
    /\ pc = "normalize"
    /\ IF normmethod \in NormMethods
       THEN /\ thenormfac' = NormFactor(normmethod)
            /\ procdata' = [procdata EXCEPT !.demeaned = demean,
                                            !.dividedby = NormFactor(normmethod)]
            /\ locals' = locals \cup {"themean", "thenormfac"}
            /\ pc' = "decompose"
            /\ error' = error
       ELSE /\ Exit("illegal normalization type")
            /\ procdata' = [procdata EXCEPT !.demeaned = demean]
            /\ locals' = locals \cup {"themean"}
            /\ UNCHANGED thenormfac
    /\ UNCHANGED <<argv, pcacomponents, maskv, stackv, decompv, outv>>

----------------------------------------------------------------------------
(* sklearn.decomposition, as the function uses it.  The data handed to a   *)
(* fit is np.transpose(procdata): nsamples time points by nfeatures        *)
(* processed voxels.  A fit either raises or returns some number of        *)
(* components; which number, where the data decides it, is left open.      *)

\* the component counts PCA(n_components=spec).fit can return; none: it raises
PcaCounts(spec, nsamples, nfeatures) ==
    LET most == Min2(nsamples, nfeatures)
    IN  IF most = 0 THEN {}
        ELSE CASE spec.type = "str" ->
                      IF spec.text = "mle" /\ nsamples >= nfeatures
                      THEN 1..most ELSE {}
               [] spec.type = "float" ->
                      IF 0 < spec.val /\ spec.val < Hundredths(1)
                      THEN 1..most ELSE {}
               [] spec.type = "int" ->
                      IF Hundredths(1) <= spec.val /\ spec.val <= Hundredths(most)
                      THEN {spec.val \div Hundredths(1)} ELSE {}
               [] OTHER -> {}

\* SparsePCA(n_components=spec).fit: an integer count, or it raises
SparsePcaCounts(spec, nsamples, nfeatures) ==
    IF Min2(nsamples, nfeatures) = 0 THEN {}
    ELSE IF spec.type = "int" /\ Hundredths(1) <= spec.val
         THEN {spec.val \div Hundredths(1)} ELSE {}

\* FastICA(n_components=spec).fit: None asks for all, a count is capped
IcaCounts(spec, nsamples, nfeatures) ==
    LET most == Min2(nsamples, nfeatures)
    IN  IF most = 0 THEN {}
        ELSE IF spec.type = "NoneType" THEN {most}
             ELSE {Min2(spec.val \div Hundredths(1), most)}

\* np.transpose(fit.components_[0:k]): one row per processed voxel, one
\* column per component; the entry names its row and column
Loadings(nrows, k) == [j \in 1..nrows |-> [c \in 1..k |-> 10 * j + c]]

----------------------------------------------------------------------------
(* Decomposition Engine *)

\* lines 166-180
FitICA ==
    /\ pc = "decompose"
    /\ decomptype = "ica"
    /\ LET counts == IcaCounts(icacomponents, procdata.cols, Len(procdata.raw))
       IN  IF counts = {}
           THEN /\ Raise("ValueError")
                /\ UNCHANGED <<thefit, thecomponents, locals>>
           ELSE \E k \in counts :
                   /\ thefit' = k
                   /\ thecomponents' =
                          Loadings(Len(procdata.raw),
                                   IF icacomponents.type = "NoneType" THEN k
                                   ELSE Min2(icacomponents.val \div Hundredths(1), k))
                   /\ locals' = locals \cup {"thefit", "thecomponents"}
                   /\ pc' = "return"
                   /\ error' = error
    /\ UNCHANGED <<argv, pcacomponents, maskv, stackv, normv, thepca,
                   thetransform, theinvtrans, outv>>

\* lines 182-193: joblib.load of <trainedmodelroot>_pca.joblib
LoadModel ==
    /\ pc = "decompose"
    /\ decomptype # "ica"
    /\ trainedmodelroot # None
    /\ IF trainedmodelroot \in DOMAIN ModelFiles
       THEN /\ thepca' = ModelFiles[trainedmodelroot]
            /\ locals' = locals \cup {"thepca"}
            /\ pc' = "fit"
            /\ error' = error
       ELSE /\ Exit("An exception occurred when trying to open the model")
            /\ UNCHANGED <<thepca, locals>>
    /\ UNCHANGED <<argv, pcacomponents, maskv, stackv, normv, thefit,
                   thetransform, theinvtrans, thecomponents, outv>>

\* lines 196-204: the n_components the fresh model is built with
ComponentSpec(spec) ==
    IF 0 < spec.val /\ spec.val < Hundredths(1) THEN spec
    ELSE IF spec.val < 0 THEN PyStr("mle")
    ELSE spec

\* lines 195-211: a fresh model, dumped before it is fitted
ConstructModel ==
    /\ pc = "decompose"
    /\ decomptype # "ica"
    /\ trainedmodelroot = None
    /\ pcacomponents' = ComponentSpec(pcacomponents)
    /\ thepca' = [kind |-> IF decomptype = "pca" THEN "PCA" ELSE "SparsePCA",
                  n_components |-> ComponentSpec(pcacomponents),
                  state |-> "unfit",
                  origin |-> "fresh"]
    /\ written' = written \cup {ModelFileName(outputroot)}
    /\ locals' = locals \cup {"thepca"}
    /\ pc' = "fit"
    /\ UNCHANGED <<argv, error, maskv, stackv, normv, thefit, thetransform,
                   theinvtrans, thecomponents, outputcomponents, outinvtrans,
                   returned>>

\* lines 213-215: fit, transform, inverse_transform, whatever thepca's origin
FitTransform ==
    /\ pc = "fit"
    /\ LET nsamples == procdata.cols
           nfeatures == Len(procdata.raw)
           counts == IF thepca.kind = "PCA"
                     THEN PcaCounts(thepca.n_components, nsamples, nfeatures)
                     ELSE SparsePcaCounts(thepca.n_components, nsamples, nfeatures)
       IN  \/ /\ counts = {}
              /\ Raise("ValueError")
              /\ UNCHANGED <<thepca, thefit, thetransform, theinvtrans, locals>>
           \/ \E k \in counts :
                 /\ thepca' = [thepca EXCEPT !.state = "fit"]
                 /\ thefit' = k
                 /\ \/ /\ thetransform' = <<nsamples, k>>
                       /\ theinvtrans' = [rows |-> nfeatures, cols |-> nsamples,
                                          rescaledby |-> "", meanadded |-> FALSE]
                       /\ locals' = locals \cup
                              {"thefit", "thetransform", "theinvtrans"}
                       /\ pc' = "retain"
                       /\ error' = error
                    \/ \* a SparsePCA without inverse_transform
                       /\ thepca.kind = "SparsePCA"
                       /\ thetransform' = <<nsamples, k>>
                       /\ locals' = locals \cup {"thefit", "thetransform"}
                       /\ Raise("AttributeError")
                       /\ UNCHANGED theinvtrans
    /\ UNCHANGED <<argv, pcacomponents, maskv, stackv, normv, thecomponents,
                   outv>>

\* line 217 compares pcacomponents with 1.0 (a str raises TypeError); line 221
\* slices with it (a float raises TypeError)
RetainRaises(spec) ==
    \/ spec.type = "str"
    \/ spec.val >= Hundredths(1) /\ spec.type = "float"

\* lines 217-221: how many of the k fitted components are kept
Retained(spec, k) ==
    IF spec.val < Hundredths(1) THEN k
    ELSE Min2(spec.val \div Hundredths(1), k)

\* lines 217-224
RetainComponents ==
    /\ pc = "retain"
    /\ IF RetainRaises(pcacomponents)
       THEN /\ Raise("TypeError")
            /\ UNCHANGED <<thecomponents, locals>>
       ELSE /\ thecomponents' =
                   Loadings(Len(procdata.raw), Retained(pcacomponents, thefit))
            /\ IF thepca.kind = "SparsePCA"
               THEN \* no explained_variance_ratio_
                    /\ Raise("AttributeError")
                    /\ locals' = locals \cup {"thecomponents"}
               ELSE /\ locals' = locals \cup {"thecomponents", "exp_var_pct"}
                    /\ pc' = "save"
                    /\ error' = error
    /\ UNCHANGED <<argv, pcacomponents, maskv, stackv, normv, thepca, thefit,
                   thetransform, theinvtrans, outv>>

----------------------------------------------------------------------------
(* Reassembler *)

\* lines 226-234
SaveComponents ==
    /\ pc = "save"
    /\ LET k == IF Len(thecomponents) = 0 THEN 0 ELSE Len(thecomponents[1])
       IN  outputcomponents' =
               [shape |-> <<shape3[1], shape3[2], shape3[3], k>>,
                data |-> ScatterRows(numspatiallocs, k, proclocs, thecomponents)]
    /\ locals' = locals \cup {"outputcomponents", "outputcoefficients"}
    /\ pc' = "denormalize"
    /\ UNCHANGED <<argv, pcacomponents, error, maskv, stackv, normv, decompv,
                   outinvtrans, written, returned>>

\* the names bound at module level, lines 19-31
ModuleGlobals ==
    {"argparse", "sys", "joblib", "np", "PCA", "FastICA", "SparsePCA", "mad",
     "tide_filt", "tide_io", "niftidecomp_workflow"}

\* lines 239-248: the loop reads thevar on its first pass
Denormalize ==
    /\ pc = "denormalize"
    /\ IF totaltimepoints > 0 /\ "thevar" \notin locals \cup ModuleGlobals
       THEN /\ Raise("NameError")
            /\ UNCHANGED <<theinvtrans, outinvtrans, locals>>
       ELSE /\ theinvtrans' =
                   IF totaltimepoints > 0
                   THEN [theinvtrans EXCEPT !.rescaledby = "thevar",
                                            !.meanadded = TRUE]
                   ELSE theinvtrans
            /\ outinvtrans' =
                   [shape |-> <<shape3[1], shape3[2], shape3[3], theinvtrans.cols>>,
                    data |-> ScatterRows(numspatiallocs, theinvtrans.cols, proclocs,
                                         Loadings(theinvtrans.rows, theinvtrans.cols))]
            /\ locals' = locals \cup {"theheader", "outinvtrans"}
            /\ pc' = "return"
            /\ error' = error
    /\ UNCHANGED <<argv, pcacomponents, maskv, stackv, normv, thepca, thefit,
                   thetransform, thecomponents, outputcomponents, written,
                   returned>>

\* the names of the returned tuple, lines 249-257
ReturnNames ==
    <<"outputcomponents", "outputcoefficients", "outinvtrans", "exp_var_pct",
      "datafile_hdr", "datafiledims", "datafilesizes">>

\* lines 249-257
Return ==
    /\ pc = "return"
    /\ IF \A i \in 1..Len(ReturnNames) : ReturnNames[i] \in locals
       THEN /\ returned' = ReturnNames
            /\ pc' = "returned"
            /\ error' = error
       ELSE /\ Raise("UnboundLocalError")
            /\ UNCHANGED returned
    /\ UNCHANGED <<argv, pcacomponents, locals, maskv, stackv, normv, decompv,
                   outputcomponents, outinvtrans, written>>

----------------------------------------------------------------------------

Next ==
    \/ ReadMask
    \/ SelectVoxels
    \/ ReadDataFile
    \/ PlaceDataFile
    \/ CheckMaskDims
    \/ MaskArrays
    \/ Normalize
    \/ FitICA
    \/ LoadModel
    \/ ConstructModel
    \/ FitTransform
    \/ RetainComponents
    \/ SaveComponents
    \/ Denormalize
    \/ Return

Spec == Init /\ [][Next]_vars

----------------------------------------------------------------------------
(* The inputs the properties speak of *)

\* at least one data file, every one with the geometry of the first
FilesAgree ==
    /\ Len(datafilelist) >= 1
    /\ \A i \in 1..Len(datafilelist) :
           DataFiles[datafilelist[i]].dims = DataFiles[datafilelist[1]].dims

\* a 3-D mask over the space of the data
MaskFits ==
    /\ datamaskname \in DOMAIN MaskFiles
    /\ MaskFiles[datamaskname].dims.t = 1
    /\ Len(datafilelist) >= 1
    /\ checkspacedimmatch(DataFiles[datafilelist[1]].dims,
                          MaskFiles[datamaskname].dims)

\* the run ended before its return
Failed == pc \in {"exit", "exception"}

----------------------------------------------------------------------------
(* C1: every run that ends in failure, at whatever step, has written no    *)
(* output: <outputroot>_pca.joblib in particular has not been written.     *)
C1_NoOutputOnFailure ==
    Failed => written = {}

(* C2: a single-file run with decomptype "pca", pcacomponents 0.5,         *)
(* normmethod "None", demean on and a 3-D mask above the threshold         *)
(* everywhere completes without error, with proclocs every spatial index,  *)
(* procdata of shape (voxels, time points) and the component maps of shape *)
(* (x, y, slices, k), k the number of components the fit returned.         *)
C2_Scenario ==
    /\ Len(datafilelist) = 1
    /\ MaskFits
    /\ \A p \in 1..Len(MaskFiles[datamaskname].data) :
           MaskFiles[datamaskname].data[p] > maskthresh
    /\ decomptype = "pca"
    /\ pcacomponents = PyFloat(50)
    /\ trainedmodelroot = None
    /\ normmethod = "None"
    /\ demean

C2_EndToEnd ==
    (C2_Scenario /\ pc \in Terminal) =>
        /\ pc = "returned"
        /\ proclocs = [p \in 1..numspatiallocs |-> p]
        /\ Len(procdata.raw) = numspatiallocs
        /\ procdata.cols = DataFiles[datafilelist[1]].dims.t
        /\ outputcomponents.shape = <<shape3[1], shape3[2], shape3[3], thefit>>

(* C3: for every decomposition type, "ica" included, a run on valid inputs *)
(* returns the full result tuple; on the ICA path the returned components  *)
(* are the transposed loadings of the fit.  Valid inputs here: files that  *)
(* agree, a mask that fits, a legal normmethod, and a component request    *)
(* every fit can meet (ICA with any request, or a PCA variance fraction).  *)
C3_ValidInputs ==
    /\ FilesAgree
    /\ MaskFits
    /\ \E p \in 1..Len(MaskFiles[datamaskname].data) :
           MaskFiles[datamaskname].data[p] > maskthresh
    /\ normmethod \in NormMethods
    /\ \/ decomptype = "ica"
       \/ /\ decomptype = "pca"
          /\ pcacomponents = PyFloat(50)
          /\ trainedmodelroot = None

C3_FullResult ==
    (C3_ValidInputs /\ pc \in Terminal) =>
        /\ pc = "returned"
        /\ returned = ReturnNames
        /\ decomptype = "ica" =>
               outputcomponents.data =
                   ScatterRows(numspatiallocs, thefit, proclocs, thecomponents)

(* C4: on the fresh PCA/SparsePCA path every component-count request gets  *)
(* past the component-retention step once its fit has succeeded: a         *)
(* fraction and a negative value (automatic selection) keep all returned   *)
(* components, any other value N keeps the first N.                        *)
C4_RetentionPassed ==
    (/\ pc \in Terminal
     /\ decomptype = "pca"
     /\ thepca.origin = "fresh"
     /\ "theinvtrans" \in locals) =>
        /\ "thecomponents" \in locals
        /\ \A j \in 1..Len(thecomponents) :
               Len(thecomponents[j]) =
                   IF thepca.n_components.type = "int"
                   THEN Min2(thepca.n_components.val \div Hundredths(1), thefit)
                   ELSE thefit

(* C5: with pcacomponents = 1.0, no smoothing and no prefilter, the run    *)
(* completes and the reconstruction it returns is the inverse transform    *)
(* rescaled by the Normalizer's factor with the mean re-added, that is,    *)
(* the original procdata.                                                  *)
C5_RoundTrip ==
    (/\ pc \in Terminal
     /\ FilesAgree
     /\ MaskFits
     /\ \A p \in 1..Len(MaskFiles[datamaskname].data) :
            MaskFiles[datamaskname].data[p] > maskthresh
     /\ normmethod \in NormMethods
     /\ decomptype = "pca"
     /\ trainedmodelroot = None
     /\ pcacomponents = PyFloat(Hundredths(1))) =>
        /\ pc = "returned"
        /\ theinvtrans.rescaledby = "thenormfac"
        /\ theinvtrans.meanadded

(* C6: a model loaded from <trainedmodelroot>_pca.joblib is never fitted   *)
(* again: from the load to the end of the run its state is the persisted   *)
(* one.                                                                    *)
C6_LoadedModelNotRefit ==
    thepca.origin = "loaded" => thepca.state = "persisted"

(* C7: with datamaskname None the run needs no mask volume: it reads and   *)
(* stacks every data file, and proclocs is exactly the set of voxels whose *)
(* range over the stacked time points is strictly positive.                *)
C7_NoMaskSelectsByRange ==
    (datamaskname = None /\ FilesAgree /\ pc \in Terminal) =>
        /\ filesRead = datafilelist
        /\ "proclocs" \in locals
        /\ proclocs = RangeLocs(rs_datafile)

(* C8: a mask with a number of time points other than 1 ends the run with  *)
(* the diagnostic "mask must have only 3 dimensions" before any data file  *)
(* is read.                                                                *)
C8_MaskNot3D ==
    ("datamaskdims" \in locals /\ parseniftidims(datamaskdims)[4] # 1) =>
        /\ filesRead = <<>>
        /\ pc \in {"select", "exit"}
        /\ pc = "exit" => error = "mask must have only 3 dimensions"

C8_Witness ==
    /\ pc = "exit"
    /\ error = "mask must have only 3 dimensions"
    /\ parseniftidims(datamaskdims)[4] = 2
    /\ Len(datafilelist) >= 1

(* C9: once a data file after the first has been read whose spatial        *)
(* dimensions or time point count differ from the first file's, the run    *)
(* has ended with the dimension-mismatch diagnostic: that file's slot of   *)
(* the Voxel-Time Matrix is still zero, no later file has been read and    *)
(* nothing has been decomposed.                                            *)
C9_Mismatch(i) ==
    /\ i > 1
    /\ i <= Len(filesRead)
    /\ DataFiles[filesRead[i]].dims # DataFiles[filesRead[1]].dims

C9_MismatchAborts ==
    \A i \in 1..Len(filesRead) :
        C9_Mismatch(i) =>
            /\ pc = "exit"
            /\ error = "all input data files must have the same dimensions"
            /\ Len(filesRead) = i
            /\ \A v \in 1..Len(rs_datafile) :
                   \A c \in 1..Len(rs_datafile[v]) :
                       ((i - 1) * timepoints < c /\ c <= i * timepoints) =>
                           rs_datafile[v][c] = 0
            /\ "procdata" \notin locals
            /\ thepca = NoModel
            /\ thefit = 0

C9_Witness ==
    /\ C9_Mismatch(2)
    /\ Len(datafilelist) = 3
    /\ pc = "exit"

(* C10: in every Reassembler output (the component maps, the reconstructed *)
(* volume) a spatial index outside proclocs is 0 in every column, and the  *)
(* index proclocs[j] holds row j of the voxel-indexed result.              *)
C10_Scattered(out, rows) ==
    /\ Len(out.data) = numspatiallocs
    /\ \A v \in 1..numspatiallocs :
           /\ (\A j \in 1..Len(proclocs) : proclocs[j] # v) =>
                  \A c \in 1..Len(out.data[v]) : out.data[v][c] = 0
           /\ \A j \in 1..Len(proclocs) :
                  proclocs[j] = v => out.data[v] = rows[j]

C10_ScatterInvariant ==
    /\ "outputcomponents" \in locals =>
           C10_Scattered(outputcomponents, thecomponents)
    /\ "outinvtrans" \in locals =>
           C10_Scattered(outinvtrans, Loadings(theinvtrans.rows, theinvtrans.cols))

C10_Witness ==
    /\ "outputcomponents" \in locals
    /\ proclocs = <<1, 3>>
    /\ numspatiallocs = 3
    /\ outputcomponents.data[2] = [c \in 1..Len(thecomponents[1]) |-> 0]
    /\ outputcomponents.data[3] = thecomponents[2]

====
